---- MODULE Spec2Model ----
(***************************************************************************)
(* Insurance-eligibility intake server (src/server.js).                    *)
(*                                                                         *)
(* Texts are TLA+ strings; the text functions (toUpperCase, normalize, the *)
(* word-boundary regular expressions, String.includes) are computed        *)
(* character by character as the JavaScript computes them.  A card image   *)
(* is modelled by the pieces of text printed on it; a successful OCR call  *)
(* yields the concatenation of those pieces.                               *)
(*                                                                         *)
(* Specifications:                                                         *)
(*   Spec        POST /submit of the plain server, POST /ocr of Express    *)
(*   SpecLive    the same handlers, with the event loop's fairness         *)
(*   SpecCli     the servers that run the tesseract command line           *)
(*               (src/unnamed/part_000)                                    *)
(*   SpecClient  the chat clients (src/public/app.js,                      *)
(*               src/unnamed/part_001)                                     *)
(*   SpecStatic  the GET handler for static files (src/server.js)          *)
(***************************************************************************)
EXTENDS Integers, Sequences, FiniteSets, TLC

VARIABLES
    phase,        \* where the request handler of the server stands
    request,      \* the payload of the request being handled
    ocrTask,      \* the two OCR calls of the request, front and back
    workerReady,  \* workerReady of src/server.js
    response,     \* the response written for the request
    sent,         \* how many responses were written for the request
    settled,      \* the sides whose OCR call has settled, in the order they did
    initCount,    \* how many times the worker's initialization was started
    client,       \* the chat client: its variables and its Send button
    static        \* the GET handler: the URL, the file read, the answer

serverVars == <<phase, request, ocrTask, workerReady, response, sent, settled, initCount>>

vars == <<phase, request, ocrTask, workerReady, response, sent, settled, initCount,
          client, static>>

-----------------------------------------------------------------------------
(* Bounds *)

\* Pieces of text printed on the two faces of a card, front and back together.
MaxPieces == 2

\* The same, for payloads that never reach OCR (an asserted planType, or a
\* missing image).
MaxSidePieces == 1

\* The server is followed until the worker's initialization has been started
\* this many times without success.
MaxInits == 2

-----------------------------------------------------------------------------
(* Characters and strings *)

LowerLetters == "abcdefghijklmnopqrstuvwxyz"
UpperLetters == "ABCDEFGHIJKLMNOPQRSTUVWXYZ"
Digits == "0123456789"

CharAt(s, i) == SubSeq(s, i, i)

CharsOf(s) == {CharAt(s, i) : i \in 1..Len(s)}

LowerSet == CharsOf(LowerLetters)
UpperSet == CharsOf(UpperLetters)
DigitSet == CharsOf(Digits)

\* The upper-case letter of each lower-case letter.
UpperOf ==
    [c \in LowerSet |->
        CharAt(UpperLetters, CHOOSE i \in 1..Len(LowerLetters) : CharAt(LowerLetters, i) = c)]

\* String.prototype.toUpperCase on one character.
UpperChar(c) == IF c \in LowerSet THEN UpperOf[c] ELSE c

\* String.prototype.toUpperCase, character by character from the left.
toUpperCase(s) ==
    LET upper[i \in 0..Len(s)] ==
            IF i = 0 THEN "" ELSE upper[i - 1] \o UpperChar(CharAt(s, i))
    IN  upper[Len(s)]

\* s.replace(/[^A-Z0-9]/g, ''): keeps the upper-case letters and the digits.
StripNonAlnum(s) ==
    LET kept[i \in 0..Len(s)] ==
            IF i = 0 THEN ""
            ELSE kept[i - 1] \o
                 (IF CharAt(s, i) \in UpperSet \cup DigitSet THEN CharAt(s, i) ELSE "")
    IN  kept[Len(s)]

\* String.prototype.includes
Includes(s, needle) ==
    \E i \in 1..(Len(s) - Len(needle) + 1) : SubSeq(s, i, i + Len(needle) - 1) = needle

\* The regular expression class \w.
IsWordChar(c) == c \in UpperSet \cup LowerSet \cup DigitSet \cup {"_"}

\* /\bWORD\b/.test(s), for a WORD made of word characters.
WordBoundaryTest(s, word) ==
    \E i \in 1..(Len(s) - Len(word) + 1) :
        /\ SubSeq(s, i, i + Len(word) - 1) = word
        /\ (i = 1 \/ ~IsWordChar(CharAt(s, i - 1)))
        /\ (i + Len(word) > Len(s) \/ ~IsWordChar(CharAt(s, i + Len(word))))

-----------------------------------------------------------------------------
(* The plan classifier: normalize and parsePlan *)

normalize(text) == StripNonAlnum(toUpperCase(text))

\* The four plan-type signals, each of the upper-cased text and its collapsed form.
\* Mutation: the PPO signal from the word-boundary test alone.
hasPPO_WordOnly(up, collapsed) == WordBoundaryTest(up, "PPO")

hasPPO(up, collapsed) ==
    \/ WordBoundaryTest(up, "PPO")
    \/ Includes(collapsed, "PPO")
    \/ Includes(collapsed, "PREFERREDPROVIDERORGANIZATION")

\* Mutation: the POS signal without the spelled-out name.
hasPOS_NoSpelledOut(up, collapsed) ==
    WordBoundaryTest(up, "POS") \/ Includes(collapsed, "POS")

hasPOS(up, collapsed) ==
    \/ WordBoundaryTest(up, "POS")
    \/ Includes(collapsed, "POS")
    \/ Includes(collapsed, "POINTOFSERVICE")

hasHMO(up, collapsed) ==
    \/ WordBoundaryTest(up, "HMO")
    \/ Includes(collapsed, "HMO")
    \/ Includes(collapsed, "HEALTHMAINTENANCEORGANIZATION")

hasEPO(up, collapsed) ==
    \/ WordBoundaryTest(up, "EPO")
    \/ Includes(collapsed, "EPO")
    \/ Includes(collapsed, "EXCLUSIVEPROVIDERORGANIZATION")

hasMedicare(collapsed) == Includes(collapsed, "MEDICARE")

hasMedicaid(collapsed) == Includes(collapsed, "MEDICAID")

\* Mutation: the other non-commercial terms without VA.
hasOther_NoVA(collapsed) ==
    \/ Includes(collapsed, "TRICARE")
    \/ Includes(collapsed, "VETERANS")
    \/ Includes(collapsed, "CATASTROPHIC")

hasOther(collapsed) ==
    \/ Includes(collapsed, "TRICARE")
    \/ Includes(collapsed, "VETERANS")
    \/ Includes(collapsed, "VA")
    \/ Includes(collapsed, "CATASTROPHIC")

\* Mutation: flags.some(Boolean) counted as one signal.
CountTrue_Any(flags) == IF \E i \in DOMAIN flags : flags[i] THEN 1 ELSE 0

\* flags.filter(Boolean).length
CountTrue(flags) == Cardinality({i \in DOMAIN flags : flags[i]})

\* Mutation: the HMO and EPO branches exchanged.
SinglePlan_HmoEpoSwapped(ppo, pos, hmo) ==
    IF ppo THEN [planType |-> "PPO", hasOON |-> TRUE, conflict |-> FALSE]
    ELSE IF pos THEN [planType |-> "POS", hasOON |-> TRUE, conflict |-> FALSE]
    ELSE IF hmo THEN [planType |-> "EPO", hasOON |-> FALSE, conflict |-> FALSE]
    ELSE [planType |-> "HMO", hasOON |-> FALSE, conflict |-> FALSE]

\* Mutation: the EPO branch sets hasOON.
SinglePlan_EpoOON(ppo, pos, hmo) ==
    IF ppo THEN [planType |-> "PPO", hasOON |-> TRUE, conflict |-> FALSE]
    ELSE IF pos THEN [planType |-> "POS", hasOON |-> TRUE, conflict |-> FALSE]
    ELSE IF hmo THEN [planType |-> "HMO", hasOON |-> FALSE, conflict |-> FALSE]
    ELSE [planType |-> "EPO", hasOON |-> TRUE, conflict |-> FALSE]

\* The result of the branch taken when exactly one signal fired.
SinglePlan(ppo, pos, hmo) ==
    IF ppo THEN [planType |-> "PPO", hasOON |-> TRUE, conflict |-> FALSE]
    ELSE IF pos THEN [planType |-> "POS", hasOON |-> TRUE, conflict |-> FALSE]
    ELSE IF hmo THEN [planType |-> "HMO", hasOON |-> FALSE, conflict |-> FALSE]
    ELSE [planType |-> "EPO", hasOON |-> FALSE, conflict |-> FALSE]

\* Mutation: UNKNOWN and CONFLICT exchanged.
NoSinglePlan_Swapped(count) ==
    [planType |-> IF count = 0 THEN "CONFLICT" ELSE "UNKNOWN",
     hasOON |-> FALSE, conflict |-> TRUE]

\* The result of the branch taken when no signal or several signals fired.
NoSinglePlan(count) ==
    [planType |-> IF count = 0 THEN "UNKNOWN" ELSE "CONFLICT",
     hasOON |-> FALSE, conflict |-> TRUE]

parsePlan(text) ==
    LET Classify(up, collapsed) ==
            LET ppo == hasPPO(up, collapsed)
                pos == hasPOS(up, collapsed)
                hmo == hasHMO(up, collapsed)
                epo == hasEPO(up, collapsed)
                count == CountTrue(<<ppo, pos, hmo, epo>>)
            IN  IF hasMedicare(collapsed) \/ hasMedicaid(collapsed) \/ hasOther(collapsed)
                THEN [planType |-> "NON-COMMERCIAL", hasOON |-> FALSE, conflict |-> TRUE]
                ELSE IF count # 1 THEN NoSinglePlan(count)
                ELSE SinglePlan(ppo, pos, hmo)
    \* const T = text.toUpperCase() and const N = normalize(text), computed once
    IN  CHOOSE plan \in {Classify(up, collapsed) :
                            up \in {toUpperCase(text)}, collapsed \in {normalize(text)}} : TRUE


-----------------------------------------------------------------------------
(* Requests *)

\* The fragments a card face is printed from.
Pieces ==
    {"PPO", "pos", "HMO", "EPO", "P.P.O.", "Point of Service",
     " Select", " Value", "Medicare", "_Plan"}

\* The card faces of exactly n pieces.
Cards(n) == [1..n -> Pieces]

RECURSIVE Concat(_)
Concat(card) == IF card = <<>> THEN "" ELSE Head(card) \o Concat(Tail(card))

\* What a successful recognition of a card face yields.
CardText(card) == Concat(card)

\* A base64 image of a card face, and a front/back field that is absent or empty.
Image(card) == [given |-> TRUE, card |-> card]
MissingImage == [given |-> FALSE, card |-> <<>>]

\* The front/back pairs both present, of at most n pieces together.
ImagePairs(n) ==
    UNION {{<<Image(f), Image(b)>> : f \in Cards(i), b \in Cards(j)} :
           <<i, j>> \in {ij \in (0..n) \X (0..n) : ij[1] + ij[2] <= n}}

\* The pairs in which the front, the back or both are missing.
MissingPairs(n) ==
    {<<MissingImage, MissingImage>>}
    \cup UNION {UNION {{<<MissingImage, Image(c)>>, <<Image(c), MissingImage>>} :
                        c \in Cards(k)} : k \in 0..n}

\* JavaScript values of the planType field.
Undefined == [kind |-> "undefined", str |-> ""]
Str(s) == [kind |-> "string", str |-> s]
Num(s) == [kind |-> "number", str |-> s]

Truthy(v) ==
    CASE v.kind = "string" -> v.str # ""
      [] v.kind = "number" -> v.str # "0"
      [] OTHER -> FALSE

AssertedTypes ==
    {Str("PPO"), Str("pos"), Str("Ppo"), Str("HMO"), Str("EPO"), Str("MEDICARE"),
     Str("OTHER"), Str("ppo "), Num("7")}

AbsentTypes == {Undefined, Str("")}

Payload(variant, pair, planType) ==
    [variant |-> variant, wellFormed |-> TRUE,
     front |-> pair[1], back |-> pair[2], planType |-> planType]

\* A body that JSON.parse rejects.
MalformedBody ==
    [variant |-> "http", wellFormed |-> FALSE,
     front |-> MissingImage, back |-> MissingImage, planType |-> Undefined]

NoRequest ==
    [variant |-> "none", wellFormed |-> FALSE,
     front |-> MissingImage, back |-> MissingImage, planType |-> Undefined]

\* "http": POST /submit or /api/submit of the plain HTTP server;
\* "express": POST /ocr of the Express application.
Requests ==
    {Payload(v, pair, Undefined) :
        v \in {"http", "express"}, pair \in ImagePairs(MaxPieces)}
    \cup {Payload("http", pair, t) :
            pair \in ImagePairs(MaxSidePieces), t \in AssertedTypes \cup AbsentTypes}
    \cup {Payload(v, pair, t) :
            v \in {"http", "express"}, pair \in MissingPairs(MaxSidePieces),
            t \in {Undefined, Str("PPO")}}
    \cup {MalformedBody}

-----------------------------------------------------------------------------
(* Responses *)

BOOKING_URL == "https://ai.henigan.io/picture"
SELFPAY_URL == "https://www.albertplasticsurgery.com/patient-resources/financing/"

Absent == "undefined"

NoDetails == [absent |-> TRUE]

NoResponse ==
    [status |-> 0, success |-> FALSE, message |-> Absent, link |-> Absent,
     redirect |-> Absent, details |-> NoDetails]

\* sendJson(res, status, obj) and res.status(status).json(obj)
sendJson(status, success, message, link, redirect, details) ==
    [status |-> status, success |-> success, message |-> message, link |-> link,
     redirect |-> redirect, details |-> details]

MissingImages ==
    sendJson(400, FALSE, "Missing images", Absent, Absent, NoDetails)

ServerError == sendJson(500, FALSE, "Server error", Absent, Absent, NoDetails)

\* The plain server names the self-pay page in the message, the Express
\* application in the redirect field.
NotEligible(variant, details) ==
    IF variant = "http"
    THEN sendJson(200, FALSE, "not eligible: " \o SELFPAY_URL, Absent, Absent, details)
    ELSE sendJson(200, FALSE, "not eligible", Absent, SELFPAY_URL, details)

Eligible(variant, details) ==
    IF variant = "http"
    THEN sendJson(200, TRUE, "eligible", BOOKING_URL, Absent, details)
    ELSE sendJson(200, TRUE, "eligible", Absent, BOOKING_URL, details)

\* Mutation: the asserted plan type compared without upper-casing it.
AssertedDecision_CaseSensitive(planType) ==
    IF planType.kind # "string"
    THEN ServerError
    ELSE LET type == planType.str
             eligible == type = "PPO" \/ type = "POS"
         IN  IF ~eligible
             THEN NotEligible("http", [planType |-> type])
             ELSE Eligible("http", [planType |-> type, hasOON |-> TRUE])

\* if (planType) { ... }: the decision from the asserted plan type alone.
AssertedDecision(planType) ==
    IF planType.kind # "string"
    THEN ServerError    \* planType.toUpperCase is not a function
    ELSE LET type == toUpperCase(planType.str)
             eligible == type = "PPO" \/ type = "POS"
         IN  IF ~eligible
             THEN NotEligible("http", [planType |-> type])
             ELSE Eligible("http", [planType |-> type, hasOON |-> TRUE])

\* Mutation: the decision from analysis.conflict alone.
AnalysisDecision_ConflictOnly(variant, analysis) ==
    IF analysis.conflict
    THEN NotEligible(variant, analysis)
    ELSE Eligible(variant, analysis)

\* if (analysis.conflict || !analysis.hasOON) ... else ...
AnalysisDecision(variant, analysis) ==
    IF analysis.conflict \/ ~analysis.hasOON
    THEN NotEligible(variant, analysis)
    ELSE Eligible(variant, analysis)


-----------------------------------------------------------------------------
(* The request handlers and the OCR calls *)

Sides == {"front", "back"}

IdleTask == [pc |-> "none", text |-> ""]

NoTasks == [s \in Sides |-> IdleTask]

\* ocr(buffer) up to its first suspension: ensureWorker() initializes the
\* worker unless workerReady is set, and worker.recognize follows.
ocr(ready) == [pc |-> IF ready THEN "recognize" ELSE "init", text |-> ""]

\* callOcrSpace(base64String) up to its first suspension.
callOcrSpace == [pc |-> "fetch", text |-> ""]

InFlight(task) == task.pc \in {"init", "recognize", "fetch", "tesseract"}

\* Mutation: the texts joined in the order the calls completed.
RecognizedText_CompletionOrder(tasks) ==
    tasks[settled[1]].text \o "\n" \o tasks[settled[Len(settled)]].text

\* `${frontText}\n${backText}`
RecognizedText(tasks) == tasks["front"].text \o "\n" \o tasks["back"].text

\* The chat client and the GET handler, where a specification leaves them out.
NoClient == [kind |-> "none"]

NoGet == [pc |-> "none"]

\* The server after its module has been loaded.
ServerInit ==
    /\ phase = "idle"
    /\ request = NoRequest
    /\ ocrTask = NoTasks
    /\ workerReady = FALSE
    /\ response = NoResponse
    /\ sent = 0
    /\ settled = <<>>
    /\ initCount = 0

Init ==
    /\ ServerInit
    /\ client = NoClient
    /\ static = NoGet

\* The body of a POST has been received in full.
Receive ==
    /\ phase = "idle"
    /\ workerReady \/ initCount + Cardinality(Sides) <= MaxInits
    /\ phase' = "received"
    /\ \E req \in Requests : request' = req
    /\ UNCHANGED <<ocrTask, workerReady, response, sent, settled, initCount>>
    /\ UNCHANGED <<client, static>>

\* sendJson on the response of the request being handled.
Respond(r) ==
    /\ response' = r
    /\ sent' = sent + 1
    /\ phase' = "responded"

\* Promise.all([ocr(frontBuf), ocr(backBuf)]): both calls run to their first
\* suspension, each through ensureWorker, which starts the initialization
\* when it finds workerReady unset.
StartOcr ==
    /\ ocrTask' = [s \in Sides |-> ocr(workerReady)]
    /\ initCount' = initCount + Cardinality({s \in Sides : ~workerReady})
    /\ settled' = <<>>
    /\ phase' = "ocr"
    /\ UNCHANGED <<response, sent>>

\* Mutation: the asserted planType is looked at before the images.
SubmitEnd_PlanTypeFirst ==
    /\ phase = "received"
    /\ request.variant = "http"
    /\ IF ~request.wellFormed
       THEN Respond(ServerError) /\ UNCHANGED <<ocrTask, settled, initCount>>
       ELSE IF Truthy(request.planType)
       THEN /\ Respond(AssertedDecision(request.planType))
            /\ UNCHANGED <<ocrTask, settled, initCount>>
       ELSE IF ~request.front.given \/ ~request.back.given
       THEN Respond(MissingImages) /\ UNCHANGED <<ocrTask, settled, initCount>>
       ELSE StartOcr
    /\ UNCHANGED <<request, workerReady, client, static>>

\* req.on('end', ...) of POST /submit and /api/submit, down to the response
\* or to the await of the two ocr() calls.
SubmitEnd ==
    /\ phase = "received"
    /\ request.variant = "http"
    /\ IF ~request.wellFormed
       THEN Respond(ServerError) /\ UNCHANGED <<ocrTask, settled, initCount>>
       ELSE IF ~request.front.given \/ ~request.back.given
       THEN Respond(MissingImages) /\ UNCHANGED <<ocrTask, settled, initCount>>
       ELSE IF Truthy(request.planType)
       THEN /\ Respond(AssertedDecision(request.planType))
            /\ UNCHANGED <<ocrTask, settled, initCount>>
       ELSE StartOcr
    /\ UNCHANGED <<request, workerReady, client, static>>

\* app.post('/ocr', ...), down to the response or to the await of the two
\* callOcrSpace() calls.
OcrPost ==
    /\ phase = "received"
    /\ request.variant = "express"
    /\ IF ~request.front.given \/ ~request.back.given
       THEN Respond(MissingImages) /\ UNCHANGED <<ocrTask, settled>>
       ELSE /\ ocrTask' = [s \in Sides |-> callOcrSpace]
            /\ settled' = <<>>
            /\ phase' = "ocr"
            /\ UNCHANGED <<response, sent>>
    /\ UNCHANGED <<request, workerReady, initCount, client, static>>

Image_(side) == IF side = "front" THEN request.front ELSE request.back

\* The OCR call of a side resolves with the text of its image.
Resolve(side) ==
    /\ ocrTask' = [ocrTask EXCEPT ![side] =
                     [pc |-> "resolved", text |-> CardText(Image_(side).card)]]
    /\ settled' = Append(settled, side)

\* The OCR call of a side rejects.
Reject(side) ==
    /\ ocrTask' = [ocrTask EXCEPT ![side].pc = "rejected"]
    /\ settled' = Append(settled, side)

\* ensureWorker: load, loadLanguage and initialize have completed.
WorkerInitDone(side) ==
    /\ ocrTask[side].pc = "init"
    /\ workerReady' = TRUE
    /\ ocrTask' = [ocrTask EXCEPT ![side].pc = "recognize"]
    /\ UNCHANGED <<phase, request, response, sent, settled, initCount, client, static>>

\* ensureWorker: one of load, loadLanguage, initialize rejects.
WorkerInitFail(side) ==
    /\ ocrTask[side].pc = "init"
    /\ Reject(side)
    /\ UNCHANGED <<phase, request, workerReady, response, sent, initCount, client, static>>

\* worker.recognize(buffer) resolves with the text of the image.
RecognizeDone(side) ==
    /\ ocrTask[side].pc = "recognize"
    /\ Resolve(side)
    /\ UNCHANGED <<phase, request, workerReady, response, sent, initCount, client, static>>

\* worker.recognize(buffer) rejects.
RecognizeFail(side) ==
    /\ ocrTask[side].pc = "recognize"
    /\ Reject(side)
    /\ UNCHANGED <<phase, request, workerReady, response, sent, initCount, client, static>>

\* callOcrSpace resolves with the parsed text of the image ('' when the
\* service found none: a face with nothing printed on it).
FetchDone(side) ==
    /\ ocrTask[side].pc = "fetch"
    /\ Resolve(side)
    /\ UNCHANGED <<phase, request, workerReady, response, sent, initCount, client, static>>

\* callOcrSpace throws: no API key, a failed fetch, or a response that is not ok.
FetchFail(side) ==
    /\ ocrTask[side].pc = "fetch"
    /\ Reject(side)
    /\ UNCHANGED <<phase, request, workerReady, response, sent, initCount, client, static>>

\* Promise.all resolved: parsePlan on the joined text, and the response.
AfterOcr ==
    /\ phase = "ocr"
    /\ \A s \in Sides : ocrTask[s].pc = "resolved"
    /\ Respond(AnalysisDecision(request.variant, parsePlan(RecognizedText(ocrTask))))
    /\ UNCHANGED <<request, ocrTask, workerReady, settled, initCount, client, static>>

\* Promise.all rejected: the catch block.
\* Mutation: the catch block logs the error and writes no response.
OcrCatch_LogOnly ==
    /\ phase = "ocr"
    /\ \E s \in Sides : ocrTask[s].pc = "rejected"
    /\ phase' = "failed"
    /\ UNCHANGED <<request, ocrTask, workerReady, response, sent, settled, initCount>>
    /\ UNCHANGED <<client, static>>

OcrCatch ==
    /\ phase = "ocr"
    /\ \E s \in Sides : ocrTask[s].pc = "rejected"
    /\ Respond(ServerError)
    /\ UNCHANGED <<request, ocrTask, workerReady, settled, initCount, client, static>>

\* The exchange is over and the server waits for the next request.
NextRequest ==
    /\ phase = "responded"
    /\ \A s \in Sides : ~InFlight(ocrTask[s])
    /\ phase' = "idle"
    /\ request' = NoRequest
    /\ ocrTask' = NoTasks
    /\ response' = NoResponse
    /\ sent' = 0
    /\ settled' = <<>>
    /\ UNCHANGED <<workerReady, initCount, client, static>>

Next ==
    \/ Receive
    \/ SubmitEnd
    \/ OcrPost
    \/ \E side \in Sides : WorkerInitDone(side)
    \/ \E side \in Sides : WorkerInitFail(side)
    \/ \E side \in Sides : RecognizeDone(side)
    \/ \E side \in Sides : RecognizeFail(side)
    \/ \E side \in Sides : FetchDone(side)
    \/ \E side \in Sides : FetchFail(side)
    \/ AfterOcr
    \/ OcrCatch
    \/ NextRequest

Spec == Init /\ [][Next]_vars


-----------------------------------------------------------------------------
(* Vocabulary of the properties *)

PlanTokens == {"PPO", "POS", "HMO", "EPO"}

OONTokens == {"PPO", "POS"}

PlanCategories == PlanTokens \cup {"NON-COMMERCIAL", "UNKNOWN", "CONFLICT"}

\* The spelled-out name of each plan type, without its spaces.
SpelledOutName ==
    [tok \in PlanTokens |->
        CASE tok = "PPO" -> "PREFERREDPROVIDERORGANIZATION"
          [] tok = "POS" -> "POINTOFSERVICE"
          [] tok = "HMO" -> "HEALTHMAINTENANCEORGANIZATION"
          [] tok = "EPO" -> "EXCLUSIVEPROVIDERORGANIZATION"]

NonCommercialTerms == {"MEDICARE", "MEDICAID", "TRICARE", "VA", "VETERANS", "CATASTROPHIC"}

\* w occurs in the collapsed form of the text (upper-cased, non-alphanumerics stripped).
InCollapsed(text, w) == Includes(normalize(text), w)

\* w occurs in the text as a whole word, in either case.
AsWholeWord(text, w) == WordBoundaryTest(toUpperCase(text), w)

SpelledOut(text, tok) == InCollapsed(text, SpelledOutName[tok])

\* The text names the plan type as a word of its own or by its spelled-out name.
NamesPlan(text, tok) == AsWholeWord(text, tok) \/ SpelledOut(text, tok)

\* The collapsed form of the text holds the token or the spelled-out name.
CollapsedNamesPlan(text, tok) == InCollapsed(text, tok) \/ SpelledOut(text, tok)

HasNonCommercialTerm(text) == \E w \in NonCommercialTerms : InCollapsed(text, w)

\* The request was answered from the analysis of the recognized text.
OcrPathDone == phase = "responded" /\ \A s \in Sides : ocrTask[s].pc = "resolved"

Text == RecognizedText(ocrTask)

ImagesGiven == request.front.given /\ request.back.given

-----------------------------------------------------------------------------
(* C1 *)

\* C1: on the OCR path the response has success:true if and only if parsePlan
\* classified the recognized text as PPO or POS, that is exactly one plan-type
\* signal fired, it was PPO or POS, and no non-commercial term was present;
\* every other category is answered success:false.
C1_SuccessIffOONPlan ==
    OcrPathDone =>
        /\ response.status = 200
        /\ response.details.planType \in PlanCategories
        /\ response.success <=> response.details.planType \in OONTokens
        /\ response.success <=>
              /\ ~HasNonCommercialTerm(Text)
              /\ Cardinality({tok \in PlanTokens : CollapsedNamesPlan(Text, tok)}) = 1
              /\ \E tok \in OONTokens : CollapsedNamesPlan(Text, tok)

C1_Witness ==
    /\ OcrPathDone
    /\ request.variant = "http"
    /\ response.success
    /\ response.details.planType = "POS"

(* C2 *)

\* C2: a text whose collapsed form contains MEDICARE, MEDICAID, TRICARE, VA,
\* VETERANS or CATASTROPHIC is classified NON-COMMERCIAL with hasOON false,
\* whatever plan-type tokens it also holds, and is not eligible.
C2_NonCommercialPriority ==
    (OcrPathDone /\ HasNonCommercialTerm(Text)) =>
        /\ response.details.planType = "NON-COMMERCIAL"
        /\ response.details.hasOON = FALSE
        /\ ~response.success

C2_Witness ==
    /\ OcrPathDone
    /\ InCollapsed(Text, "VA")
    /\ AsWholeWord(Text, "PPO")
    /\ response.details.planType = "NON-COMMERCIAL"

(* C3 *)

\* C3: a text holding two or more distinct plan-type tokens (or spelled-out
\* names) and no non-commercial term is classified CONFLICT with hasOON false
\* and conflict true, and is not eligible.
C3_SeveralTokensConflict ==
    (/\ OcrPathDone
     /\ ~HasNonCommercialTerm(Text)
     /\ Cardinality({tok \in PlanTokens : CollapsedNamesPlan(Text, tok)}) >= 2) =>
        /\ response.details = [planType |-> "CONFLICT", hasOON |-> FALSE, conflict |-> TRUE]
        /\ ~response.success

C3_Witness ==
    /\ OcrPathDone
    /\ AsWholeWord(Text, "PPO")
    /\ AsWholeWord(Text, "HMO")
    /\ response.details.planType = "CONFLICT"

(* C4 *)

\* C4 as claimed: a text holding exactly one of PPO, POS as a whole word (or
\* spelled out), none of the other three plan types as a whole word or spelled
\* out, and no non-commercial term is classified as that token with hasOON true
\* and conflict false, and is eligible.
C4_WholeWordEligible ==
    OcrPathDone =>
        \A tok \in OONTokens :
            (/\ NamesPlan(Text, tok)
             /\ \A other \in PlanTokens \ {tok} : ~NamesPlan(Text, other)
             /\ ~HasNonCommercialTerm(Text)) =>
                /\ response.details = [planType |-> tok, hasOON |-> TRUE, conflict |-> FALSE]
                /\ response.success

\* C4 amended: the same, with every occurrence judged on the collapsed form of
\* the text: the collapsed text holds exactly one of PPO, POS (or its
\* spelled-out name), none of the other three tokens or names, and no
\* non-commercial term.
C4_CollapsedEligible ==
    OcrPathDone =>
        \A tok \in OONTokens :
            (/\ CollapsedNamesPlan(Text, tok)
             /\ \A other \in PlanTokens \ {tok} : ~CollapsedNamesPlan(Text, other)
             /\ ~HasNonCommercialTerm(Text)) =>
                /\ response.details = [planType |-> tok, hasOON |-> TRUE, conflict |-> FALSE]
                /\ response.success

C4_Witness ==
    /\ OcrPathDone
    /\ CollapsedNamesPlan(Text, "PPO")
    /\ ~AsWholeWord(Text, "PPO")
    /\ \A other \in PlanTokens \ {"PPO"} : ~CollapsedNamesPlan(Text, other)
    /\ ~HasNonCommercialTerm(Text)
    /\ response.success

(* C5 *)

\* C5: parsePlan is total: the empty string, and every text in which no
\* plan-type signal and no non-commercial term is found, is classified UNKNOWN
\* with hasOON false, and is not eligible.
C5_NoSignalUnknown ==
    /\ parsePlan("") = [planType |-> "UNKNOWN", hasOON |-> FALSE, conflict |-> TRUE]
    /\ (/\ OcrPathDone
        /\ ~HasNonCommercialTerm(Text)
        /\ \A tok \in PlanTokens : ~CollapsedNamesPlan(Text, tok)) =>
            /\ response.details.planType = "UNKNOWN"
            /\ response.details.hasOON = FALSE
            /\ response.status = 200
            /\ ~response.success

C5_Witness ==
    /\ OcrPathDone
    /\ Len(normalize(Text)) > 0
    /\ response.details.planType = "UNKNOWN"


(* C6 *)

\* The payload of the plain server's request carries an asserted planType.
AssertedRequest ==
    /\ phase = "responded"
    /\ request.variant = "http"
    /\ request.wellFormed
    /\ Truthy(request.planType)

\* a and b are equal when compared without regard to case.
EqualsIgnoreCase(a, b) == toUpperCase(a) = toUpperCase(b)

AssertedOON ==
    /\ request.planType.kind = "string"
    /\ \E tok \in OONTokens : EqualsIgnoreCase(request.planType.str, tok)

\* C6 as claimed: when the payload carries an asserted planType the decision is
\* made from that value alone, with no OCR: success:true with the booking link
\* if and only if the planType is PPO or POS compared case-insensitively.
C6_AssertedTypeAlone ==
    AssertedRequest =>
        /\ ocrTask = NoTasks
        /\ response.success <=> AssertedOON
        /\ response.success => response.link = BOOKING_URL

\* C6 amended: the same for a payload that carries both images and an
\* asserted planType.
C6_AssertedTypeWithImages ==
    (AssertedRequest /\ ImagesGiven) =>
        /\ ocrTask = NoTasks
        /\ response.success <=> AssertedOON
        /\ response.success => response.link = BOOKING_URL

C6_Witness ==
    /\ AssertedRequest
    /\ ImagesGiven
    /\ request.planType = Str("pos")
    /\ CollapsedNamesPlan(CardText(request.front.card), "HMO")
    /\ response.success
    /\ response.link = BOOKING_URL

(* C7 *)

\* C7 as claimed: a text holding exactly one of HMO, EPO as a whole word (or
\* spelled out), none of the other plan types as a whole word, and no
\* non-commercial term is classified as that token with hasOON false, and is
\* not eligible.
C7_WholeWordNotEligible ==
    OcrPathDone =>
        \A tok \in PlanTokens \ OONTokens :
            (/\ NamesPlan(Text, tok)
             /\ \A other \in PlanTokens \ {tok} : ~NamesPlan(Text, other)
             /\ ~HasNonCommercialTerm(Text)) =>
                /\ response.details.planType = tok
                /\ response.details.hasOON = FALSE
                /\ ~response.success

\* C7 amended: the same, with every occurrence judged on the collapsed form of
\* the text: the collapsed text holds exactly one of HMO, EPO (or its
\* spelled-out name), none of the other three tokens or names, and no
\* non-commercial term.
C7_CollapsedNotEligible ==
    OcrPathDone =>
        \A tok \in PlanTokens \ OONTokens :
            (/\ CollapsedNamesPlan(Text, tok)
             /\ \A other \in PlanTokens \ {tok} : ~CollapsedNamesPlan(Text, other)
             /\ ~HasNonCommercialTerm(Text)) =>
                /\ response.details.planType = tok
                /\ response.details.hasOON = FALSE
                /\ ~response.success

C7_Witness ==
    /\ OcrPathDone
    /\ AsWholeWord(Text, "HMO")
    /\ response.details.planType = "HMO"
    /\ ~response.success

(* C8 *)

\* C8: in every result of parsePlan hasOON is true if and only if planType is
\* PPO or POS.
C8_OONIffPpoOrPos ==
    OcrPathDone =>
        /\ response.details.planType \in PlanCategories
        /\ response.details.hasOON <=> response.details.planType \in OONTokens

C8_Witness ==
    /\ OcrPathDone
    /\ response.details.planType = "EPO"
    /\ ~response.details.hasOON

(* C9 *)

\* C9: parsePlan is insensitive to case and to spacing and punctuation: texts
\* with the same collapsed form get the same planType, hasOON and conflict.
\* Every text has the collapsed form of its own collapsed form, so this is:
\* each text is classified as its collapsed form is.
C9_NoiseInsensitive ==
    /\ parsePlan("P.P.O. PLAN") = parsePlan("PPO PLAN")
    /\ OcrPathDone =>
          /\ normalize(normalize(Text)) = normalize(Text)
          /\ response.details = parsePlan(normalize(Text))

C9_Witness ==
    /\ OcrPathDone
    /\ InCollapsed(Text, "PPO")
    /\ ~Includes(toUpperCase(Text), "PPO")
    /\ response.details.planType = "PPO"

(* C10 *)

\* C10: when the OCR invocation for the front or the back image fails, the
\* submission is processed as if the recognized text were empty: it is answered
\* as not eligible (200, success:false, classified UNKNOWN), not as a server error.
C10_OcrFailureDegrades ==
    (phase = "responded" /\ \E s \in Sides : ocrTask[s].pc = "rejected") =>
        /\ response.status = 200
        /\ ~response.success
        /\ response.details.planType = "UNKNOWN"


(* Every request is answered *)

\* Card faces of the requests followed to their response.
MaxLivePieces == 1
LivePieces == {"PPO", "HMO"}
LiveCards == UNION {[1..k -> LivePieces] : k \in 0..MaxLivePieces}
LiveImages == {Image(c) : c \in LiveCards} \cup {MissingImage}

LiveRequests ==
    {Payload(v, <<f, b>>, t) :
        v \in {"http", "express"}, f \in LiveImages, b \in LiveImages,
        t \in {Undefined, Str("PPO"), Str("HMO")}}
    \cup {MalformedBody}

ReceiveLive ==
    /\ phase = "idle"
    /\ workerReady \/ initCount + Cardinality(Sides) <= MaxInits
    /\ phase' = "received"
    /\ \E req \in LiveRequests : request' = req
    /\ UNCHANGED <<ocrTask, workerReady, response, sent, settled, initCount>>
    /\ UNCHANGED <<client, static>>

NextLive ==
    \/ ReceiveLive
    \/ SubmitEnd
    \/ OcrPost
    \/ \E side \in Sides : WorkerInitDone(side)
    \/ \E side \in Sides : WorkerInitFail(side)
    \/ \E side \in Sides : RecognizeDone(side)
    \/ \E side \in Sides : RecognizeFail(side)
    \/ \E side \in Sides : FetchDone(side)
    \/ \E side \in Sides : FetchFail(side)
    \/ AfterOcr
    \/ OcrCatch
    \/ NextRequest

\* The event loop runs a callback that is ready, and every awaited OCR step
\* settles, by resolving or by rejecting.
HandlerStep ==
    \/ SubmitEnd
    \/ OcrPost
    \/ \E side \in Sides :
          \/ WorkerInitDone(side) \/ WorkerInitFail(side)
          \/ RecognizeDone(side) \/ RecognizeFail(side)
          \/ FetchDone(side) \/ FetchFail(side)
    \/ AfterOcr
    \/ OcrCatch

SpecLive == Init /\ [][NextLive]_vars /\ WF_vars(HandlerStep)

(* The servers that run the tesseract command line *)

\* Pieces of text on the cards sent to these servers, and the total number of
\* pieces on the two faces of one card.
MaxCliPieces == 2
CliPieces == {"PPO", "POS", "HMO", "EPO", " ", "Medicare", "catastrophic"}

CliCards(n) == [1..n -> CliPieces]

CliPairs(n) ==
    UNION {{<<Image(f), Image(b)>> : f \in CliCards(i), b \in CliCards(j)} :
           <<i, j>> \in {ij \in (0..n) \X (0..n) : ij[1] + ij[2] <= n}}

\* "cli": the server of inferPlan and ocrImage; "info": the server of
\* extractInsuranceInfo and isCommercialPlan.
CliVariants == {"cli", "info"}

CliRequests ==
    {Payload(v, pair, Undefined) : v \in CliVariants, pair \in CliPairs(MaxCliPieces)}
    \cup {Payload(v, pair, Undefined) :
            v \in CliVariants,
            pair \in {<<MissingImage, MissingImage>>,
                      <<MissingImage, Image(<<"PPO">>)>>,
                      <<Image(<<"PPO">>), MissingImage>>}}
    \cup {[MalformedBody EXCEPT !.variant = v] : v \in CliVariants}

\* The lower-case letter of each upper-case letter.
LowerOf ==
    [c \in UpperSet |->
        CharAt(LowerLetters, CHOOSE i \in 1..Len(UpperLetters) : CharAt(UpperLetters, i) = c)]

LowerChar(c) == IF c \in UpperSet THEN LowerOf[c] ELSE c

\* String.prototype.toLowerCase
toLowerCase(s) ==
    LET lower[i \in 0..Len(s)] ==
            IF i = 0 THEN "" ELSE lower[i - 1] \o LowerChar(CharAt(s, i))
    IN  lower[Len(s)]

\* /(WORD)\b/.test(s): the word, followed by a word boundary.
WordEndTest(s, word) ==
    \E i \in 1..(Len(s) - Len(word) + 1) :
        /\ SubSeq(s, i, i + Len(word) - 1) = word
        /\ (i + Len(word) > Len(s) \/ ~IsWordChar(CharAt(s, i + Len(word))))

\* inferPlan(text) of the "cli" server.
inferPlan(text) ==
    LET Infer(T) ==
            LET isGov == \E w \in {"MEDICARE", "MEDICAID", "TRICARE", "VA"} : Includes(T, w)
                planType ==
                    IF WordEndTest(T, "PPO") THEN "PPO"
                    ELSE IF WordBoundaryTest(T, "POS") THEN "POS"
                    ELSE IF WordBoundaryTest(T, "EPO") THEN "EPO"
                    ELSE IF WordBoundaryTest(T, "HMO") THEN "HMO"
                    ELSE "UNKNOWN"
            IN  IF isGov THEN [planType |-> "NON-COMMERCIAL", hasOON |-> FALSE]
                ELSE [planType |-> planType, hasOON |-> planType \in {"PPO", "POS"}]
    IN  CHOOSE plan \in {Infer(T) : T \in {toUpperCase(text)}} : TRUE

\* The plan fields of extractInsuranceInfo, from the text it recognized.
extractInsuranceInfo(text) ==
    LET Extract(lower) ==
            LET planType ==
                    IF Includes(lower, "ppo") THEN "PPO"
                    ELSE IF Includes(lower, "pos") THEN "POS"
                    ELSE IF Includes(lower, "epo") THEN "EPO"
                    ELSE IF Includes(lower, "hmo") THEN "HMO"
                    ELSE "UNKNOWN"
            IN  [planType |-> planType,
                 hasOON |-> planType \in {"PPO", "POS"},
                 planName |-> IF planType # "UNKNOWN" THEN planType \o " Plan" ELSE ""]
    IN  CHOOSE info \in {Extract(lower) : lower \in {toLowerCase(text)}} : TRUE

nonCom == {"medicare", "medicaid", "tricare", "va", "catastrophic"}

isCommercialPlan(planName) ==
    ~\E k \in nonCom : Includes(toLowerCase(planName), k)

NeedImages ==
    sendJson(400, FALSE, "Need front and back images.", Absent, Absent, NoDetails)

CliServerError == sendJson(500, FALSE, "Server error.", Absent, Absent, NoDetails)

InvalidRequest == sendJson(400, FALSE, "Invalid request.", Absent, Absent, NoDetails)

CALENDLY_URL == "https://calendly.com/albertplasticsurgery/econsult"

\* The response of the "cli" server to the plan inferred from the text.
CliDecision(plan) ==
    IF plan.planType = "NON-COMMERCIAL"
    THEN sendJson(200, FALSE, "Non-commercial plan detected (e.g., Medicare/Medicaid).",
                  Absent, Absent, NoDetails)
    ELSE IF ~plan.hasOON
    THEN sendJson(200, FALSE, "Your plan does not show out-of-network benefits.",
                  Absent, Absent, NoDetails)
    ELSE sendJson(200, TRUE, "You're eligible to move forward.", CALENDLY_URL, Absent, plan)

\* The response of the "info" server to the fields extracted from the text.
InfoDecision(info) ==
    LET commercial == isCommercialPlan(info.planName)
        eligible == commercial /\ info.hasOON
    IN  IF eligible
        THEN sendJson(200, TRUE, "You're eligible to move forward.", BOOKING_URL, Absent, info)
        ELSE sendJson(200, FALSE,
                      IF ~commercial
                      THEN "Your plan is not a commercial insurance (e.g. Medicare/Medicaid)."
                      ELSE "Your plan does not show out-of-network benefits.",
                      Absent, Absent, info)

\* execFile('tesseract', ...) started for an image file.
tesseract == [pc |-> "tesseract", text |-> ""]

ReceiveCli ==
    /\ phase = "idle"
    /\ phase' = "received"
    /\ \E req \in CliRequests : request' = req
    /\ UNCHANGED <<ocrTask, workerReady, response, sent, settled, initCount>>
    /\ UNCHANGED <<client, static>>

StartTesseract ==
    /\ ocrTask' = [s \in Sides |-> tesseract]
    /\ settled' = <<>>
    /\ phase' = "ocr"
    /\ UNCHANGED <<response, sent>>

\* POST /api/submit of the "cli" server, down to the await of the two ocrImage calls.
ApiSubmit ==
    /\ phase = "received"
    /\ request.variant = "cli"
    /\ IF ~request.wellFormed
       THEN Respond(CliServerError) /\ UNCHANGED <<ocrTask, settled>>
       ELSE IF ~request.front.given \/ ~request.back.given
       THEN Respond(NeedImages) /\ UNCHANGED <<ocrTask, settled>>
       ELSE StartTesseract
    /\ UNCHANGED <<request, workerReady, initCount, client, static>>

\* POST /submit of the "info" server, down to the await in extractInsuranceInfo.
InfoSubmit ==
    /\ phase = "received"
    /\ request.variant = "info"
    /\ IF ~request.wellFormed \/ ~request.front.given \/ ~request.back.given
       THEN Respond(InvalidRequest) /\ UNCHANGED <<ocrTask, settled>>
       ELSE StartTesseract
    /\ UNCHANGED <<request, workerReady, initCount, client, static>>

\* tesseract exits normally: the promise resolves with its standard output.
TesseractDone(side) ==
    /\ request.variant \in CliVariants
    /\ ocrTask[side].pc = "tesseract"
    /\ Resolve(side)
    /\ UNCHANGED <<phase, request, workerReady, response, sent, initCount, client, static>>

\* tesseract fails: ocrImage resolves with '', runTesseract rejects.
TesseractError(side) ==
    /\ request.variant \in CliVariants
    /\ ocrTask[side].pc = "tesseract"
    /\ ocrTask' = [ocrTask EXCEPT
                     ![side] = IF request.variant = "cli"
                               THEN [pc |-> "resolved", text |-> ""]
                               ELSE [pc |-> "rejected", text |-> ""]]
    /\ settled' = Append(settled, side)
    /\ UNCHANGED <<phase, request, workerReady, response, sent, initCount, client, static>>

\* The "cli" handler after Promise.all: inferPlan on the joined text.
CliAfterOcr ==
    /\ phase = "ocr"
    /\ request.variant = "cli"
    /\ \A s \in Sides : ocrTask[s].pc = "resolved"
    /\ Respond(CliDecision(inferPlan(RecognizedText(ocrTask))))
    /\ UNCHANGED <<request, ocrTask, workerReady, settled, initCount, client, static>>

\* The text extractInsuranceInfo works on: '' when Promise.all rejected.
InfoText(tasks) ==
    IF \E s \in Sides : tasks[s].pc = "rejected" THEN "" ELSE RecognizedText(tasks)

\* The "info" handler after extractInsuranceInfo returned.
InfoAfterOcr ==
    /\ phase = "ocr"
    /\ request.variant = "info"
    /\ \/ \A s \in Sides : ocrTask[s].pc = "resolved"
       \/ \E s \in Sides : ocrTask[s].pc = "rejected"
    /\ Respond(InfoDecision(extractInsuranceInfo(InfoText(ocrTask))))
    /\ UNCHANGED <<request, ocrTask, workerReady, settled, initCount, client, static>>

NextCli ==
    \/ ReceiveCli
    \/ ApiSubmit
    \/ InfoSubmit
    \/ \E side \in Sides : TesseractDone(side)
    \/ \E side \in Sides : TesseractError(side)
    \/ CliAfterOcr
    \/ InfoAfterOcr
    \/ NextRequest

SpecCli == Init /\ [][NextCli]_vars

(* The chat clients *)

\* The number of submissions that the page has in flight at one time.
MaxInFlight == 2

\* "basic": public/app.js; "plan": the client with the plan selection.
ClientKinds == {"basic", "plan"}

Null == [kind |-> "null", str |-> ""]

\* reader.result.split(',')[1] for a file with content and for an empty file.
B64Of(file) == IF file = "image" THEN Str("/9j/4AAQSkZJRg") ELSE Str("")

Files == {"image", "empty"}

\* The values of the options of the plan select shown to the visitor.
PlanOptions == {"", "PPO", "HMO", "OTHER"}

NoPayload == [absent |-> TRUE]

\* The page after its script has run; the Send button is disabled in the
\* page's markup until both images are there.
Page(kind) ==
    [kind |-> kind, pc |-> "page",
     frontB64 |-> Null, backB64 |-> Null, planType |-> Null,
     planSelectRendered |-> FALSE, disabled |-> TRUE,
     reading |-> [s \in Sides |-> "none"],
     inFlight |-> 0, timer |-> FALSE, payload |-> NoPayload]

OnPage == client # NoClient /\ client.pc = "page"

LoadPage ==
    /\ client = NoClient
    /\ \E kind \in ClientKinds : client' = Page(kind)
    /\ UNCHANGED <<serverVars, static>>

\* attachBtn click: the file dialog of the front input while frontB64 is not
\* set, of the back input afterwards; the visitor picks a file and the change
\* handler starts to read it.
Attach ==
    /\ OnPage
    /\ LET side == IF ~Truthy(client.frontB64) THEN "front" ELSE "back"
       IN  /\ client.reading[side] = "none"
           /\ \E file \in Files :
                 client' = [client EXCEPT !.reading[side] = file]
    /\ UNCHANGED <<serverVars, static>>

\* The rest of a change handler, after await toBase64(file).
AfterRead(c) ==
    IF Truthy(c.frontB64) /\ Truthy(c.backB64)
    THEN IF c.kind = "basic"
         THEN [c EXCEPT !.disabled = FALSE]
         ELSE [c EXCEPT !.planSelectRendered = TRUE, !.disabled = ~Truthy(c.planType)]
    ELSE c

ReadDone(side) ==
    /\ OnPage
    /\ client.reading[side] # "none"
    /\ LET b64 == B64Of(client.reading[side])
           c == IF side = "front"
                THEN [client EXCEPT !.frontB64 = b64, !.reading[side] = "none"]
                ELSE [client EXCEPT !.backB64 = b64, !.reading[side] = "none"]
       IN  client' = AfterRead(c)
    /\ UNCHANGED <<serverVars, static>>

\* reader.onerror: the promise rejects and the handler ends.
ReadError(side) ==
    /\ OnPage
    /\ client.reading[side] # "none"
    /\ client' = [client EXCEPT !.reading[side] = "none"]
    /\ UNCHANGED <<serverVars, static>>

\* The change handler of the plan select.
SelectChange ==
    /\ OnPage
    /\ client.kind = "plan"
    /\ client.planSelectRendered
    /\ \E value \in PlanOptions :
          /\ Str(value) # client.planType
          /\ client' =
                [client EXCEPT
                    !.planType = Str(value),
                    !.disabled = ~(/\ Truthy(client.frontB64)
                                   /\ Truthy(client.backB64)
                                   /\ Truthy(Str(value)))]
    /\ UNCHANGED <<serverVars, static>>

\* The click handler of the Send button, to the await of fetch.
SendClick ==
    /\ OnPage
    /\ ~client.disabled
    /\ client.inFlight < MaxInFlight
    /\ client' =
          [client EXCEPT
              !.disabled = TRUE,
              !.inFlight = @ + 1,
              !.payload = [front |-> client.frontB64, back |-> client.backB64,
                           planType |-> IF client.kind = "plan"
                                        THEN client.planType ELSE Undefined]]
    /\ UNCHANGED <<serverVars, static>>

\* fetch and res.json() resolved: the redirect is scheduled, Send is enabled.
SubmitResponse ==
    /\ OnPage
    /\ client.inFlight > 0
    /\ client' = [client EXCEPT !.inFlight = @ - 1, !.timer = TRUE, !.disabled = FALSE]
    /\ UNCHANGED <<serverVars, static>>

\* fetch or res.json() rejected: the catch block, then Send is enabled.
SubmitError ==
    /\ OnPage
    /\ client.inFlight > 0
    /\ client' = [client EXCEPT !.inFlight = @ - 1, !.disabled = FALSE]
    /\ UNCHANGED <<serverVars, static>>

\* The setTimeout callback: window.location.href is assigned, the page is left.
Redirect ==
    /\ OnPage
    /\ client.timer
    /\ client' = [client EXCEPT !.pc = "left"]
    /\ UNCHANGED <<serverVars, static>>

NextClient ==
    \/ LoadPage
    \/ Attach
    \/ \E side \in Sides : ReadDone(side)
    \/ \E side \in Sides : ReadError(side)
    \/ SelectChange
    \/ SendClick
    \/ SubmitResponse
    \/ SubmitError
    \/ Redirect

SpecClient == Init /\ [][NextClient]_vars

(* The static file handler *)

\* The number of path segments of a request URL.
MaxUrlSegments == 3

\* __dirname: the WORKDIR of the image, as path segments.
Dirname == <<"app">>

UrlSegments == {"..", "public", "index.html", "app.js", "app-data", "etc"}

Urls == UNION {[1..n -> UrlSegments] : n \in 0..MaxUrlSegments}

\* The string of a path or URL: "/" for no segment, "/a/b" for <<"a", "b">>.
PathString(segs) ==
    LET joined[i \in 0..Len(segs)] ==
            IF i = 0 THEN "" ELSE joined[i - 1] \o "/" \o segs[i]
    IN  IF segs = <<>> THEN "/" ELSE joined[Len(segs)]

\* String.prototype.startsWith
StartsWith(s, prefix) ==
    Len(prefix) <= Len(s) /\ SubSeq(s, 1, Len(prefix)) = prefix

\* The normalisation of path.join and path.resolve on an absolute path:
\* ".." drops the segment before it, and stays at the root.
Normalize(segs) ==
    LET norm[i \in 0..Len(segs)] ==
            IF i = 0 THEN <<>>
            ELSE IF segs[i] = ".."
                 THEN (IF norm[i - 1] = <<>> THEN <<>>
                       ELSE SubSeq(norm[i - 1], 1, Len(norm[i - 1]) - 1))
                 ELSE Append(norm[i - 1], segs[i])
    IN  norm[Len(segs)]

\* filePath of the GET branch, resolved.
ResolvedPath(url) ==
    IF PathString(url) = "/" \/ PathString(url) = "/index.html"
    THEN Normalize(Dirname \o <<"public", "index.html">>)
    ELSE IF StartsWith(PathString(url), "/public/")
    THEN Normalize(Dirname \o url)
    ELSE Normalize(Dirname \o <<"public">> \o url)

\* resolved.startsWith(path.resolve(__dirname))
PassesCheck(resolved) == StartsWith(PathString(resolved), PathString(Dirname))

\* The path is the server's directory or lies below it.
InsideDirname(resolved) ==
    Len(resolved) >= Len(Dirname) /\ SubSeq(resolved, 1, Len(Dirname)) = Dirname

\* A GET request arrives: 400 'Bad request', or fs.readFile is called.
Get ==
    /\ static = NoGet
    /\ \E url \in Urls :
          LET resolved == ResolvedPath(url)
          IN  static' = IF ~PassesCheck(resolved)
                        THEN [pc |-> "done", url |-> url, resolved |-> resolved,
                              readFile |-> FALSE, status |-> 400, body |-> "Bad request"]
                        ELSE [pc |-> "reading", url |-> url, resolved |-> resolved,
                              readFile |-> TRUE, status |-> 0, body |-> ""]
    /\ UNCHANGED <<serverVars, client>>

\* The fs.readFile callback with the data of the file.
ReadFileDone ==
    /\ static.pc = "reading"
    /\ static' = [static EXCEPT !.pc = "done", !.status = 200, !.body = "data"]
    /\ UNCHANGED <<serverVars, client>>

\* The fs.readFile callback with an error.
ReadFileError ==
    /\ static.pc = "reading"
    /\ static' = [static EXCEPT
                    !.pc = "done", !.status = 404,
                    !.body = IF PathString(static.url) \in {"/", "/index.html"}
                             THEN "UI not found" ELSE "Not found"]
    /\ UNCHANGED <<serverVars, client>>

\* The response was written; the server waits for the next GET.
GetEnd ==
    /\ static.pc = "done"
    /\ static' = NoGet
    /\ UNCHANGED <<serverVars, client>>

NextStatic ==
    \/ Get
    \/ ReadFileDone
    \/ ReadFileError
    \/ GetEnd

SpecStatic == Init /\ [][NextStatic]_vars

(* C11 *)

\* C11: a request whose payload lacks a non-empty front or back image is
\* answered 400 'Missing images', and no OCR call, no parsePlan and no
\* asserted-planType decision is run for it, even when a planType is supplied.
C11_MissingImagesRejected ==
    (request.wellFormed /\ ~ImagesGiven) =>
        /\ phase \in {"received", "responded"}
        /\ ocrTask = NoTasks
        /\ settled = <<>>
        /\ phase = "responded" => (response = MissingImages /\ sent = 1)

C11_Witness ==
    /\ phase = "responded"
    /\ request.variant = "http"
    /\ request.front.given
    /\ ~request.back.given
    /\ request.planType = Str("PPO")
    /\ response.status = 400
    /\ response.message = "Missing images"

(* C12 *)

\* The request is one that the handler answers from the OCR of its images.
OcrRequest ==
    /\ request.wellFormed
    /\ ImagesGiven
    /\ request.variant = "express" \/ ~Truthy(request.planType)

\* C12: the front and back OCR calls are started together and complete in
\* either order; parsePlan runs only after both have completed, and on the
\* front text, a newline, the back text, whatever the order of completion.
C12_BothThenFrontBack ==
    /\ (ocrTask["front"].pc = "none") <=> (ocrTask["back"].pc = "none")
    /\ (OcrRequest /\ phase = "responded" /\ response.status = 200) =>
          /\ \A s \in Sides : ocrTask[s].pc = "resolved"
          /\ Len(settled) = Cardinality(Sides)
          /\ response.details =
                parsePlan(CardText(request.front.card) \o "\n" \o CardText(request.back.card))

C12_Witness ==
    /\ OcrPathDone
    /\ settled = <<"back", "front">>
    /\ response.success
    /\ parsePlan(CardText(request.back.card) \o "\n" \o CardText(request.front.card))
          # response.details

(* C14 *)

\* C14: across every interleaving, the two concurrent ocr() calls of a request
\* included, the worker's initialization (load, loadLanguage, initialize) is
\* executed at most once, and worker.recognize is never called before the
\* initialization has completed.
C14_InitializedOnce ==
    /\ initCount <= 1
    /\ \A s \in Sides : ocrTask[s].pc = "recognize" => workerReady

(* C17 *)

\* C17: every POST /submit whose body has been fully received gets exactly one
\* HTTP response, a 400, a 200 or a 500, provided its OCR calls settle; no
\* request is left without a response and none gets two.
C17_ExactlyOneResponse ==
    /\ [](/\ sent <= 1
          /\ phase = "responded" =>
                (sent = 1 /\ response.status \in {200, 400, 500})
          /\ phase \in {"received", "ocr"} => sent = 0)
    /\ (phase = "received") ~> (phase = "responded")

C17_Witness ==
    /\ phase = "responded"
    /\ sent = 1
    /\ response = ServerError
    /\ \E s \in Sides : ocrTask[s].pc = "rejected"
    /\ \E s \in Sides : InFlight(ocrTask[s])

(* C13 *)

\* An OCR-path answer of one of the tesseract servers to text recognized from both images.
CliDone(variant) ==
    /\ phase = "responded"
    /\ request.variant = variant
    /\ \A s \in Sides : ocrTask[s].pc = "resolved"

\* C13: in the tesseract servers (inferPlan, extractInsuranceInfo), a
\* submission whose recognized text contains a PPO or POS token together with
\* an HMO or EPO token is never answered with success:true.
C13_MixedTokensNotEligible ==
    \A v \in CliVariants :
        (/\ CliDone(v)
         /\ \E t \in {"PPO", "POS"} : AsWholeWord(Text, t)
         /\ \E t \in {"HMO", "EPO"} : AsWholeWord(Text, t))
        => ~response.success

(* C19 *)

\* C19: in the server of extractInsuranceInfo and isCommercialPlan, every
\* submission whose recognized text contains medicare, medicaid, tricare, va
\* or catastrophic is treated as non-commercial and answered success:false,
\* whatever plan-type token is also present.
C19_NonCommercialRejected ==
    (CliDone("info") /\ \E k \in nonCom : Includes(toLowerCase(Text), k))
        => ~response.success

(* C15 *)

\* C15: in the chat client the Send button stays disabled while a submission
\* is in flight, so that under any interleaving of file selections, plan
\* selections and clicks at most one submission is in flight at a time.
C15_OneSubmissionInFlight ==
    OnPage =>
        /\ client.inFlight <= 1
        /\ client.inFlight > 0 => client.disabled

(* C16 *)

\* C16: in the client with the plan selection, whenever the Send button is
\* enabled the front image, the back image and a non-empty planType are all
\* set, so that every submitted payload carries a non-empty planType.
C16_EnabledMeansComplete ==
    (OnPage /\ client.kind = "plan") =>
        /\ ~client.disabled =>
              /\ Truthy(client.frontB64)
              /\ Truthy(client.backB64)
              /\ Truthy(client.planType)
        /\ client.payload # NoPayload => Truthy(client.payload.planType)

(* C18 *)

\* C18: for every GET request URL the static handler reads a file only if its
\* resolved path lies inside the server's own directory; a URL that resolves
\* to a path outside that directory is answered 400 'Bad request' and no file
\* is read.
C18_ReadsOnlyInsideDirname ==
    static # NoGet =>
        /\ static.readFile => InsideDirname(static.resolved)
        /\ ~InsideDirname(static.resolved) =>
              /\ static.pc = "done"
              /\ static.status = 400
              /\ static.body = "Bad request"
              /\ ~static.readFile


====
